---------------------------- MODULE Spec2Model ----------------------------
(***************************************************************************)
(* Model of the alert-policy client (pkg/alerts/policies.go) and of the    *)
(* API-access-key client (pkg/apiaccess/keys.go) of newrelic-client-go.    *)
(*                                                                         *)
(* A client method is a short program around calls of the transport: the   *)
(* model runs one method at a time, one transport call per step.  The      *)
(* remote server is the environment: every transport call is answered      *)
(* either by a transport error or by a JSON body, drawn from small sets.   *)
(* `requests' and `responses' are history variables: the transport calls   *)
(* issued and the answers served, in order.                                *)
(*                                                                         *)
(* Go values: a nil pointer / nil slice / nil error is Nil == <<>>, a      *)
(* non-nil one holding x is Some(x) == <<x>>.  A Go string that is only    *)
(* compared is a TLA+ string; a Go string that is built or parsed          *)
(* (fmt.Sprintf, the ",string" JSON option) is a sequence of one-character *)
(* strings.                                                                *)
(***************************************************************************)
EXTENDS Integers, Sequences, FiniteSets, TLC

VARIABLES
    pc,             \* "idle", "ListPolicies", "QueryPolicySearch", "done"
    op,             \* the method the caller invoked ("none" when idle)
    args,           \* its arguments
    alertPolicies,  \* ListPolicies: the accumulator           (policies.go:71)
    nextURL,        \* ListPolicies: the URL of the next GET   (policies.go:73)
    policies,       \* QueryPolicySearch: accumulated pointers (policies.go:205)
    cells,          \* the loop variables those pointers refer to
    nextCursor,     \* QueryPolicySearch: the cursor           (policies.go:206)
    requests,       \* history: the transport calls issued
    responses,      \* history: the answers served
    ret,            \* Nil while running, Some([val, err]) once returned
    goLoopVar       \* the build's semantics of a range loop variable

vars == <<pc, op, args, alertPolicies, nextURL, policies, cells, nextCursor,
          requests, responses, ret, goLoopVar>>

-----------------------------------------------------------------------------
(* Bounds of the model *)

\* the longest chain of pages a server serves to one paginated call
MaxPages == 2

\* the most items on one page
MaxPageLen == 2

\* the most entries of a mutation response's errors array
MaxErrors == 2

-----------------------------------------------------------------------------
(* Go values *)

Nil == <<>>

Some(x) == <<x>>

\* the sequences over S of length at most n
SeqUpTo(S, n) == UNION {[1..k -> S] : k \in 0..n}

RECURSIVE Concat(_)
\* the concatenation of a sequence of sequences
Concat(ss) == IF ss = <<>> THEN <<>> ELSE Head(ss) \o Concat(Tail(ss))

\* strconv / fmt's %d of a non-negative int: its decimal digits
Digits == <<"0", "1", "2", "3", "4", "5", "6", "7", "8", "9">>

RECURSIVE Itoa(_)
Itoa(n) == IF n < 10 THEN <<Digits[n + 1]>>
           ELSE Itoa(n \div 10) \o <<Digits[(n % 10) + 1]>>

DigitVal(c) == CHOOSE d \in 0..9 : Digits[d + 1] = c

RECURSIVE Atoi(_)
Atoi(s) == IF Len(s) = 0 THEN 0
           ELSE 10 * Atoi(SubSeq(s, 1, Len(s) - 1)) + DigitVal(s[Len(s)])

\* the error values the transport can fail with
TransportErrors == {[kind |-> "transport", msg |-> <<"timeout">>],
                    [kind |-> "transport", msg |-> <<"500">>]}

\* a transport answer: an error, or the JSON body it decoded
Failure(e) == [err |-> Some(e), body |-> Nil]

Success(b) == [err |-> Nil, body |-> Some(b)]

\* what a method returns: (value, error)
Return(v, e) == Some([val |-> v, err |-> e])

-----------------------------------------------------------------------------
(* Alert policies: the REST DTO and its JSON *)

IncidentPreferenceTypes ==
    [PerPolicy |-> "PER_POLICY",
     PerCondition |-> "PER_CONDITION",
     PerConditionAndTarget |-> "PER_CONDITION_AND_TARGET"]

\* type Policy
Policy(id, pref, name, created, updated) ==
    [ID |-> id, IncidentPreference |-> pref, Name |-> name,
     CreatedAt |-> created, UpdatedAt |-> updated]

\* a JSON object is a function from its keys; Field reads a key, with the Go
\* zero value for a key the object does not have
Field(obj, key, zero) == IF key \in DOMAIN obj THEN obj[key] ELSE zero

\* json.Unmarshal into a Policy
DecodePolicy(obj) ==
    Policy(Field(obj, "id", 0),
           Field(obj, "incident_preference", ""),
           Field(obj, "name", ""),
           IF "created_at" \in DOMAIN obj THEN Some(obj["created_at"]) ELSE Nil,
           IF "updated_at" \in DOMAIN obj THEN Some(obj["updated_at"]) ELSE Nil)

\* json.Marshal of a Policy: every field is omitempty
EncodePolicy(p) ==
    LET keys == (IF p.ID /= 0 THEN {"id"} ELSE {})
                \cup (IF p.IncidentPreference /= "" THEN {"incident_preference"} ELSE {})
                \cup (IF p.Name /= "" THEN {"name"} ELSE {})
                \cup (IF p.CreatedAt /= Nil THEN {"created_at"} ELSE {})
                \cup (IF p.UpdatedAt /= Nil THEN {"updated_at"} ELSE {})
    IN  [k \in keys |->
            CASE k = "id" -> p.ID
              [] k = "incident_preference" -> p.IncidentPreference
              [] k = "name" -> p.Name
              [] k = "created_at" -> p.CreatedAt[1]
              [] k = "updated_at" -> p.UpdatedAt[1]]

\* The policies a server lists, as the JSON objects it sends.  Two of them
\* share an id, one has no incident preference and no timestamps.
ServerPolicies ==
    {[id |-> 7, name |-> "a", incident_preference |-> "PER_POLICY",
      created_at |-> 1, updated_at |-> 2],
     [id |-> 7, name |-> "b", incident_preference |-> "PER_CONDITION",
      created_at |-> 1, updated_at |-> 2],
     [id |-> 12, name |-> "a"]}

\* The answers of the server to the n-th GET of a listing (n counted from 0):
\* a transport error, or a page and the URL of the next one.  The last page a
\* server may serve has no next URL.
NextURLs == {"/alerts_policies.json?page=2", "/alerts_policies.json?page=3"}

GetResponses(n) ==
    {Failure(e) : e \in TransportErrors}
    \cup {Success([policies |-> ps, next |-> u]) :
            ps \in SeqUpTo(ServerPolicies, MaxPageLen),
            u \in {""} \cup (IF n + 1 < MaxPages THEN NextURLs ELSE {})}

\* a.pager.Parse(resp): the paging metadata of a response
Parse(resp) == [Next |-> resp.next]

\* policies.go:76-77, the body of a response decoded into alertPoliciesResponse
alertPoliciesResponse(body) ==
    [Policies |-> [i \in 1..Len(body.policies) |-> DecodePolicy(body.policies[i])]]

-----------------------------------------------------------------------------
(* ListPolicies and GetPolicy *)

\* AppendPolicies with the page put in front of what was accumulated
AppendPoliciesInFront(acc, page) == page \o acc

\* policies.go:83
AppendPolicies(acc, page) == acc \o page

\* ListPoliciesFailed returning what was accumulated along with the error
ListPoliciesFailedPartial(acc, err) == [val |-> Some(acc), err |-> Some(err)]

\* policies.go:79-81
ListPoliciesFailed(acc, err) == [val |-> Nil, err |-> Some(err)]

\* ListPoliciesNext going back to the first page while there is a next one
ListPoliciesNextRestart(paging) ==
    IF paging.Next = "" THEN "" ELSE "/alerts_policies.json"

\* policies.go:86 and the loop condition of line 75
ListPoliciesNext(paging) == paging.Next

\* errors.NewNotFoundf("no alert policy found for id %d", id)
NewNotFoundf(id) ==
    [kind |-> "notfound", msg |-> <<"no alert policy found for id ">> \o Itoa(id)]

RECURSIVE LastWithID(_, _)
\* FirstWithID searching from the end of the listing
LastWithID(ps, id) ==
    IF ps = <<>> THEN [val |-> Nil, err |-> Some(NewNotFoundf(id))]
    ELSE IF ps[Len(ps)].ID = id THEN [val |-> Some(ps[Len(ps)]), err |-> Nil]
    ELSE LastWithID(SubSeq(ps, 1, Len(ps) - 1), id)

RECURSIVE FirstWithID(_, _)
\* policies.go:100-106, the range loop of GetPolicy
FirstWithID(ps, id) ==
    IF ps = <<>> THEN [val |-> Nil, err |-> Some(NewNotFoundf(id))]
    ELSE IF Head(ps).ID = id THEN [val |-> Some(Head(ps)), err |-> Nil]
    ELSE FirstWithID(Tail(ps), id)

\* policies.go:94-98 and 100-106: what GetPolicy makes of ListPolicies' result
GetPolicyResult(listed, id) ==
    IF listed.err /= Nil THEN [val |-> Nil, err |-> listed.err]
    ELSE FirstWithID(listed.val[1], id)

\* what the running method returns once ListPolicies has returned `listed'
ListingCaller(listed) ==
    IF op = "GetPolicy" THEN GetPolicyResult(listed, args.id) ELSE listed

PolicyIDs == {7, 12}

Idle ==
    /\ pc = "idle" /\ op = "none" /\ args = Nil
    /\ alertPolicies = <<>> /\ nextURL = ""
    /\ policies = <<>> /\ cells = <<>> /\ nextCursor = Nil
    /\ requests = <<>> /\ responses = <<>> /\ ret = Nil

Init == Idle /\ goLoopVar \in {"per-loop", "per-iteration"}

\* policies.go:70-73
CallListPolicies ==
    /\ pc = "idle"
    /\ pc' = "ListPolicies" /\ op' = "ListPolicies" /\ args' = Nil
    /\ alertPolicies' = <<>> /\ nextURL' = "/alerts_policies.json"
    /\ UNCHANGED <<policies, cells, nextCursor, requests, responses, ret, goLoopVar>>

\* policies.go:93-94
CallGetPolicy ==
    /\ pc = "idle"
    /\ \E id \in PolicyIDs :
        /\ pc' = "ListPolicies" /\ op' = "GetPolicy" /\ args' = [id |-> id]
        /\ alertPolicies' = <<>> /\ nextURL' = "/alerts_policies.json"
    /\ UNCHANGED <<policies, cells, nextCursor, requests, responses, ret, goLoopVar>>

\* policies.go:75-89, one turn of the loop, with the return that follows it
ListPoliciesGet ==
    /\ pc = "ListPolicies"
    /\ nextURL /= ""
    /\ \E r \in GetResponses(Len(responses)) :
        /\ requests' = Append(requests, [method |-> "GET", url |-> nextURL])
        /\ responses' = Append(responses, r)
        /\ IF r.err /= Nil
           THEN /\ ret' = Some(ListingCaller(ListPoliciesFailed(alertPolicies, r.err[1])))
                /\ pc' = "done"
                /\ UNCHANGED <<alertPolicies, nextURL>>
           ELSE LET acc == AppendPolicies(alertPolicies,
                                          alertPoliciesResponse(r.body[1]).Policies)
                    next == ListPoliciesNext(Parse(r.body[1]))
                IN  /\ alertPolicies' = acc
                    /\ nextURL' = next
                    /\ IF next /= ""
                       THEN pc' = "ListPolicies" /\ ret' = ret
                       ELSE /\ pc' = "done"
                            /\ ret' = Some(ListingCaller([val |-> Some(acc), err |-> Nil]))
    /\ UNCHANGED <<op, args, policies, cells, nextCursor, goLoopVar>>

-----------------------------------------------------------------------------
(* NerdGraph: the query templates and the variables of a call *)

\* A static query template: the variables it declares, and for every argument
\* of the field it calls the variable that argument is bound to.
alertPolicyQueryPolicy ==
    [declares |-> {"accountID", "policyID"},
     binds |-> [accountId |-> "accountID", id |-> "policyID"]]

alertsPolicyQuerySearch ==
    [declares |-> {"accountID", "cursor", "criteria"},
     binds |-> [accountId |-> "accountID", cursor |-> "cursor",
                searchCriteria |-> "criteria"]]

alertsPolicyCreatePolicy ==
    [declares |-> {"accountID", "policy"},
     binds |-> [accountId |-> "accountID", policy |-> "policy"]]

alertsPolicyUpdatePolicy ==
    [declares |-> {"accountID", "policyID", "policy"},
     binds |-> [accountId |-> "accountID", id |-> "policyID", policy |-> "policy"]]

alertPolicyDeletePolicy ==
    [declares |-> {"accountID", "policyID"},
     binds |-> [accountId |-> "accountID", id |-> "policyID"]]

\* JSON null, and a JSON string
JSONNull == [type |-> "null"]

JSONString(s) == [type |-> "string", value |-> s]

\* What the server receives for an argument of the queried field: the value of
\* the variable the template binds it to, null when the call gave none.
Argument(query, variables, arg) ==
    IF query.binds[arg] \in DOMAIN variables
    THEN variables[query.binds[arg]] ELSE JSONNull

\* a.client.Query(query, vars, &resp), as the transport call it issues
QueryRequest(query, variables) ==
    [method |-> "QUERY", query |-> query, vars |-> variables]

\* type QueryPolicy
QueryPolicy(id, pref, name, account) ==
    [ID |-> id, IncidentPreference |-> pref, Name |-> name, AccountID |-> account]

\* json.Unmarshal into a QueryPolicy: the id is a JSON string of digits
DecodeQueryPolicy(obj) ==
    QueryPolicy(IF "id" \in DOMAIN obj THEN Atoi(obj["id"]) ELSE 0,
                Field(obj, "incidentPreference", ""),
                Field(obj, "name", ""),
                Field(obj, "accountId", 0))

\* json.Marshal of a QueryPolicyInput (embedded in the create and update inputs)
EncodeQueryPolicyInput(p) ==
    [incidentPreference |-> p.IncidentPreference, name |-> p.Name]

\* json.Unmarshal into a *string
DecodeStringPtr(j) == IF j.type = "null" THEN Nil ELSE Some(j.value)

\* json.Marshal of a *string
EncodeStringPtr(ptr) == IF ptr = Nil THEN JSONNull ELSE JSONString(ptr[1])

AccountIDs == {1, 2}

\* the caller's search criteria
SearchCriteria == {[IDs |-> Nil], [IDs |-> Some(<<7>>)]}

-----------------------------------------------------------------------------
(* QueryPolicySearch *)

\* the policies a NerdGraph server finds, as the JSON objects it sends
ServerQueryPolicies ==
    {[id |-> <<"7">>, name |-> "a", incidentPreference |-> "PER_POLICY",
      accountId |-> 1],
     [id |-> <<"1", "2">>, name |-> "b", incidentPreference |-> "PER_CONDITION",
      accountId |-> 1]}

\* the cursors a server hands out besides null
Cursors == {"", "c1"}

\* The answers of the server to the n-th search query (n counted from 0).  The
\* last page a server may serve has a null cursor.
SearchResponses(n) ==
    {Failure(e) : e \in TransportErrors}
    \cup {Success([actor |-> [account |-> [alerts |-> [policiesSearch |->
                    [nextCursor |-> c, policies |-> ps, totalCount |-> Len(ps)]]]]]) :
            ps \in SeqUpTo(ServerQueryPolicies, MaxPageLen),
            c \in {JSONNull}
                  \cup (IF n + 1 < MaxPages THEN {JSONString(x) : x \in Cursors} ELSE {})}

\* policies.go:260-272, a body decoded into alertQueryPolicySearchResponse
alertQueryPolicySearchResponse(body) ==
    LET found == body.actor.account.alerts.policiesSearch
    IN  [NextCursor |-> DecodeStringPtr(found.nextCursor),
         Policies |-> [i \in 1..Len(found.policies) |->
                            DecodeQueryPolicy(found.policies[i])],
         TotalCount |-> found.totalCount]

\* SearchVars never passing the cursor on
SearchVarsFirstPage(accountID, cursor, params) ==
    [accountID |-> accountID,
     cursor |-> JSONNull,
     searchCriteria |-> params]

\* policies.go:210-214
SearchVars(accountID, cursor, params) ==
    [accountID |-> accountID,
     cursor |-> EncodeStringPtr(cursor),
     searchCriteria |-> params]

\* policies.go:208, the condition of the loop
SearchContinues(cursor) == cursor /= Nil

RECURSIVE RangeAppend(_, _, _, _, _)
\* policies.go:220-222 from the i-th item of the page on: `p' lives in the cell
\* at address `addr'; every turn assigns the item to p and appends &p.  A build
\* whose range variable is per iteration takes a fresh cell every turn.
RangeAppend(ptrs, heap, page, i, addr) ==
    IF i > Len(page) THEN [policies |-> ptrs, cells |-> heap]
    ELSE IF goLoopVar = "per-iteration"
    THEN RangeAppend(Append(ptrs, Len(heap) + 1), Append(heap, page[i]),
                     page, i + 1, Len(heap) + 1)
    ELSE LET a == IF i = 1 THEN Len(heap) + 1 ELSE addr
             h == IF i = 1 THEN Append(heap, page[i])
                  ELSE [heap EXCEPT ![a] = page[i]]
         IN  RangeAppend(Append(ptrs, a), h, page, i + 1, a)

\* *ptr for every returned pointer
Deref(ptrs, heap) == [i \in 1..Len(ptrs) |-> heap[ptrs[i]]]

\* policies.go:203-206
CallQueryPolicySearch ==
    /\ pc = "idle"
    /\ \E accountID \in AccountIDs, params \in SearchCriteria :
        /\ args' = [accountID |-> accountID, params |-> params]
    /\ pc' = "QueryPolicySearch" /\ op' = "QueryPolicySearch"
    /\ policies' = <<>> /\ cells' = <<>> /\ nextCursor' = Nil
    /\ UNCHANGED <<alertPolicies, nextURL, requests, responses, ret, goLoopVar>>

\* policies.go:208-227, one turn of the loop, with the return that follows it
QueryPolicySearchQuery ==
    /\ pc = "QueryPolicySearch"
    /\ \E r \in SearchResponses(Len(responses)) :
        /\ requests' = Append(requests,
                QueryRequest(alertsPolicyQuerySearch,
                             SearchVars(args.accountID, nextCursor, args.params)))
        /\ responses' = Append(responses, r)
        /\ IF r.err /= Nil
           THEN /\ ret' = Return(Nil, r.err)
                /\ pc' = "done"
                /\ UNCHANGED <<policies, cells, nextCursor>>
           ELSE LET resp == alertQueryPolicySearchResponse(r.body[1])
                    acc == RangeAppend(policies, cells, resp.Policies, 1, 0)
                IN  /\ policies' = acc.policies
                    /\ cells' = acc.cells
                    /\ nextCursor' = resp.NextCursor
                    /\ IF SearchContinues(resp.NextCursor)
                       THEN pc' = "QueryPolicySearch" /\ ret' = ret
                       ELSE pc' = "done" /\ ret' = Return(Some(acc.policies), Nil)
    /\ UNCHANGED <<op, args, alertPolicies, nextURL, goLoopVar>>

-----------------------------------------------------------------------------
(* The single-call methods of the alert-policy client *)

\* A method that issues one transport call and returns.  (The methods below
\* test pc first, so that their inputs are drawn anew in every state.)
OneCall(name, a, request, response, result) ==
    /\ pc' = "done" /\ op' = name /\ args' = a
    /\ requests' = <<request>> /\ responses' = <<response>>
    /\ ret' = Some(result)
    /\ UNCHANGED <<alertPolicies, nextURL, policies, cells, nextCursor, goLoopVar>>

\* if err != nil { return nil, err }; return value, nil
ValueOrError(response, value) ==
    IF response.err /= Nil THEN [val |-> Nil, err |-> response.err]
    ELSE [val |-> Some(value), err |-> Nil]

\* the policies a caller passes to CreatePolicy and UpdatePolicy
PolicyInputs ==
    {Policy(id, pref, name, Nil, Nil) :
        id \in {0} \cup PolicyIDs,
        pref \in {"", IncidentPreferenceTypes.PerPolicy,
                  IncidentPreferenceTypes.PerCondition,
                  IncidentPreferenceTypes.PerConditionAndTarget},
        name \in {"", "a", "b"}}

\* the inputs a caller passes to the create and update mutations
QueryPolicyInputs ==
    {[IncidentPreference |-> pref, Name |-> name] :
        pref \in {IncidentPreferenceTypes.PerPolicy,
                  IncidentPreferenceTypes.PerCondition,
                  IncidentPreferenceTypes.PerConditionAndTarget},
        name \in {"", "a", "b"}}

\* the ids a server assigns to what it creates
ServerIDs == {7, 12}

\* fmt.Sprintf("/alerts_policies/%d.json", id)
PolicyURL(id) == <<"/alerts_policies/">> \o Itoa(id) \o <<".json">>

\* the id the server reads back from such a URL
PolicyURLID(url) == Atoi(SubSeq(url, 2, Len(url) - 1))

\* type alertPolicyRequestBody, marshalled
alertPolicyRequestBody(policy) == [policy |-> EncodePolicy(policy)]

\* type alertPolicyResponse, unmarshalled
alertPolicyResponse(body) ==
    [Policy |-> IF "policy" \in DOMAIN body THEN DecodePolicy(body.policy)
                ELSE Policy(0, "", "", Nil, Nil)]

\* A REST server that echoes the policy a request affects: the one it creates
\* from the body of a POST, under an id it assigns; the one a PUT's URL names,
\* with the body's fields; the one a DELETE's URL names, as it was stored.
RestEcho(request) ==
    CASE request.method = "POST" ->
            {("id" :> id) @@ ("created_at" :> 1) @@ request.body.policy :
                id \in ServerIDs}
      [] request.method = "PUT" ->
            {("id" :> PolicyURLID(request.url)) @@ ("updated_at" :> 2)
                @@ request.body.policy}
      [] request.method = "DELETE" ->
            {("id" :> PolicyURLID(request.url)) @@ stored :
                stored \in ServerPolicies}

RestResponses(request) ==
    {Failure(e) : e \in TransportErrors}
    \cup {Success([policy |-> echoed]) : echoed \in RestEcho(request)}

\* policies.go:110-123
CreatePolicy ==
    /\ pc = "idle"
    /\ \E policy \in PolicyInputs :
        LET request == [method |-> "POST", url |-> "/alerts_policies.json",
                        body |-> alertPolicyRequestBody(policy)]
        IN  \E r \in RestResponses(request) :
                OneCall("CreatePolicy", [policy |-> policy], request, r,
                        ValueOrError(r, alertPolicyResponse(r.body[1]).Policy))

\* policies.go:126-140
UpdatePolicy ==
    /\ pc = "idle"
    /\ \E policy \in PolicyInputs :
        LET request == [method |-> "PUT", url |-> PolicyURL(policy.ID),
                        body |-> alertPolicyRequestBody(policy)]
        IN  \E r \in RestResponses(request) :
                OneCall("UpdatePolicy", [policy |-> policy], request, r,
                        ValueOrError(r, alertPolicyResponse(r.body[1]).Policy))

\* policies.go:143-153
DeletePolicy ==
    /\ pc = "idle"
    /\ \E id \in PolicyIDs :
        LET request == [method |-> "DELETE", url |-> PolicyURL(id)]
        IN  \E r \in RestResponses(request) :
                OneCall("DeletePolicy", [id |-> id], request, r,
                        ValueOrError(r, alertPolicyResponse(r.body[1]).Policy))

\* A NerdGraph server that echoes the policy a query affects, read from the
\* arguments the query passes to its field.
GraphEcho(field, query, variables) ==
    LET account == Argument(query, variables, "accountId")
    IN  CASE field = "alertsPolicyCreate" ->
                {[alertsPolicyCreate |->
                    [id |-> Itoa(id), accountId |-> account]
                    @@ Argument(query, variables, "policy")] : id \in ServerIDs}
          [] field = "alertsPolicyUpdate" ->
                {[alertsPolicyUpdate |->
                    [id |-> Itoa(Argument(query, variables, "id")),
                     accountId |-> account]
                    @@ Argument(query, variables, "policy")]}
          [] field = "alertsPolicyDelete" ->
                {[alertsPolicyDelete |->
                    [id |-> Itoa(Argument(query, variables, "id"))]]}
          [] field = "policy" ->
                {[actor |-> [account |-> [alerts |-> [policy |->
                    [id |-> Itoa(Argument(query, variables, "id")),
                     accountId |-> account,
                     name |-> stored.name,
                     incidentPreference |-> stored.incidentPreference]]]]] :
                    stored \in ServerQueryPolicies}

GraphResponses(field, query, variables) ==
    {Failure(e) : e \in TransportErrors}
    \cup {Success(b) : b \in GraphEcho(field, query, variables)}

\* policies.go:274-280, 282-290: the typed responses, unmarshalled
alertQueryPolicyCreateResponse(body) ==
    [QueryPolicy |-> DecodeQueryPolicy(body.alertsPolicyCreate)]

alertQueryPolicyUpdateResponse(body) ==
    [QueryPolicy |-> DecodeQueryPolicy(body.alertsPolicyUpdate)]

alertQueryPolicyResponse(body) ==
    [Policy |-> DecodeQueryPolicy(body.actor.account.alerts.policy)]

\* policies.go:292-296
alertQueryPolicyDeleteRespose(body) ==
    [AlertsPolicyDelete |-> [ID |-> Atoi(body.alertsPolicyDelete.id)]]

\* policies.go:155-168
CreatePolicyMutation ==
    /\ pc = "idle"
    /\ \E accountID \in AccountIDs, policy \in QueryPolicyInputs :
        LET variables == [accountID |-> accountID,
                          policy |-> EncodeQueryPolicyInput(policy)]
        IN  \E r \in GraphResponses("alertsPolicyCreate", alertsPolicyCreatePolicy,
                                    variables) :
                OneCall("CreatePolicyMutation",
                        [accountID |-> accountID, policy |-> policy],
                        QueryRequest(alertsPolicyCreatePolicy, variables), r,
                        ValueOrError(r, alertQueryPolicyCreateResponse(r.body[1]).QueryPolicy))

\* policies.go:170-184
UpdatePolicyMutation ==
    /\ pc = "idle"
    /\ \E accountID \in AccountIDs, policyID \in PolicyIDs, policy \in QueryPolicyInputs :
        LET variables == [accountID |-> accountID, policyID |-> policyID,
                          policy |-> EncodeQueryPolicyInput(policy)]
        IN  \E r \in GraphResponses("alertsPolicyUpdate", alertsPolicyUpdatePolicy,
                                    variables) :
                OneCall("UpdatePolicyMutation",
                        [accountID |-> accountID, policyID |-> policyID,
                         policy |-> policy],
                        QueryRequest(alertsPolicyUpdatePolicy, variables), r,
                        ValueOrError(r, alertQueryPolicyUpdateResponse(r.body[1]).QueryPolicy))

\* policies.go:188-200
QueryPolicyByID ==
    /\ pc = "idle"
    /\ \E accountID \in AccountIDs, id \in PolicyIDs :
        LET variables == [accountID |-> accountID, policyID |-> id]
        IN  \E r \in GraphResponses("policy", alertPolicyQueryPolicy, variables) :
                OneCall("QueryPolicy", [accountID |-> accountID, id |-> id],
                        QueryRequest(alertPolicyQueryPolicy, variables), r,
                        ValueOrError(r, alertQueryPolicyResponse(r.body[1]).Policy))

\* a DeletePolicyMutation that returns the id it decoded from the response
DeletePolicyMutationDecoded(resp) ==
    QueryPolicy(resp.AlertsPolicyDelete.ID, "", "", 0)

\* policies.go:233 and 245: the policy DeletePolicyMutation returns is the one
\* it made before the query; the decoded response is not read
DeletePolicyMutationValue(resp) == QueryPolicy(0, "", "", 0)

\* policies.go:232-246
DeletePolicyMutation ==
    /\ pc = "idle"
    /\ \E accountID \in AccountIDs, id \in PolicyIDs :
        LET variables == [accountID |-> accountID, policyID |-> id]
        IN  \E r \in GraphResponses("alertsPolicyDelete", alertPolicyDeletePolicy,
                                    variables) :
                OneCall("DeletePolicyMutation", [accountID |-> accountID, id |-> id],
                        QueryRequest(alertPolicyDeletePolicy, variables), r,
                        ValueOrError(r, DeletePolicyMutationValue(
                                            alertQueryPolicyDeleteRespose(r.body[1]))))

-----------------------------------------------------------------------------
(* API access keys *)

\* the key inputs a caller passes (ApiAccessCreateInput, ApiAccessUpdateInput,
\* ApiAccessDeleteInput): opaque to the client, which only forwards them
KeyInputs == {"keys-1", "keys-2"}

\* the keys a server reports, with the fields of graphqlAPIAccessKeyBaseFields
ServerKeys ==
    {[id |-> "K1", key |-> "secret-1", name |-> "first", notes |-> "",
      type |-> "INGEST"],
     [id |-> "K2", key |-> "secret-2", name |-> "second", notes |-> "n",
      type |-> "USER"]}

\* the key lists of a response
ServerKeyLists ==
    {<<>>} \cup {<<k>> : k \in ServerKeys}
    \cup {<<j, k>> : j \in ServerKeys, k \in ServerKeys}

\* the entries of a mutation's errors array, with the fields of
\* graphqlAPIAccessKeyErrorFields the client reads
ServerKeyErrors ==
    {[message |-> m, type |-> t] :
        m \in {<<>>, <<"n", "o">>},
        t \in {<<"F">>, <<"N", "F">>}}

\* json.Unmarshal into an ApiAccessKey
DecodeKey(obj) ==
    [ID |-> obj.id, Key |-> obj.key, Name |-> obj.name, Notes |-> obj.notes,
     Type |-> obj.type]

\* json.Unmarshal into an ApiAccessDeletedKey
DecodeDeletedKey(obj) == [ID |-> obj.id]

\* json.Unmarshal into an ApiAccessKeyError
DecodeKeyError(obj) == [Message |-> obj.message, Type |-> obj.type]

\* json.Unmarshal into a []ApiAccessKey, a []ApiAccessDeletedKey and a
\* []ApiAccessKeyError
DecodeKeys(list) == [i \in 1..Len(list) |-> DecodeKey(list[i])]

DecodeDeletedKeys(list) == [i \in 1..Len(list) |-> DecodeDeletedKey(list[i])]

DecodeKeyErrors(list) == [i \in 1..Len(list) |-> DecodeKeyError(list[i])]

\* fmt.Sprintf("%v: %v\n", e.Type, e.Message)
FormatKeyError(e) == e.Type \o <<":", " ">> \o e.Message \o <<"\n">>

RECURSIVE formatFrom(_, _, _)
\* keys.go:246-248, the loop from the i-th entry on
formatFrom(errorString, errors, i) ==
    IF i > Len(errors) THEN errorString
    ELSE formatFrom(errorString \o FormatKeyError(errors[i]), errors, i + 1)

\* formatAPIAccessKeyMutationErrors reporting the first entry only
formatFirstError(errors) == formatFrom(<<>>, SubSeq(errors, 1, 1), 1)

\* keys.go:244-250
formatAPIAccessKeyMutationErrors(errors) == formatFrom(<<>>, errors, 1)

\* errors.New(text)
NewError(text) == [kind |-> "errorString", msg |-> text]

\* a key mutation that still hands out the keys of a response that reports
\* errors
KeyMutationResultWithKeys(response, errors, keys) ==
    IF response.err /= Nil THEN [val |-> Nil, err |-> response.err]
    ELSE IF Len(errors) > 0
    THEN [val |-> IF Len(keys) > 0 THEN Some(keys) ELSE Nil,
          err |-> Some(NewError(formatAPIAccessKeyMutationErrors(errors)))]
    ELSE [val |-> Some(keys), err |-> Nil]

\* keys.go:154-162, 214-222, 233-241: what a key mutation returns for a
\* response whose decoded result has the errors `errors' and the keys `keys'
KeyMutationResult(response, errors, keys) ==
    IF response.err /= Nil THEN [val |-> Nil, err |-> response.err]
    ELSE IF Len(errors) > 0
    THEN [val |-> Nil,
          err |-> Some(NewError(formatAPIAccessKeyMutationErrors(errors)))]
    ELSE [val |-> Some(keys), err |-> Nil]

\* the query templates of keys.go:116-143
apiAccessKeyCreateKeys == [declares |-> {"keys"}, binds |-> [keys |-> "keys"]]

apiAccessKeyGetKey ==
    [declares |-> {"id", "keyType"}, binds |-> [id |-> "id", keyType |-> "keyType"]]

apiAccessKeySearch == [declares |-> {"query"}, binds |-> [query |-> "query"]]

apiAccessKeyUpdateKeys == [declares |-> {"keys"}, binds |-> [keys |-> "keys"]]

apiAccessKeyDeleteKeys == [declares |-> {"keys"}, binds |-> [keys |-> "keys"]]

\* the answers of the server to a key mutation whose result is the field
\* `field', with its key list under `listed'
KeyMutationResponses(field, listed) ==
    {Failure(e) : e \in TransportErrors}
    \cup {Success((field :> ((listed :> ks) @@ [errors |-> es]))) :
            ks \in ServerKeyLists, es \in SeqUpTo(ServerKeyErrors, MaxErrors)}

\* keys.go:147-163
CreateAPIAccessKeysMutation ==
    /\ pc = "idle"
    /\ \E keys \in KeyInputs :
        \E r \in KeyMutationResponses("apiAccessCreateKeys", "createdKeys") :
            OneCall("CreateAPIAccessKeysMutation", [keys |-> keys],
                    QueryRequest(apiAccessKeyCreateKeys, [keys |-> keys]), r,
                    KeyMutationResult(r,
                        DecodeKeyErrors(r.body[1].apiAccessCreateKeys.errors),
                        DecodeKeys(r.body[1].apiAccessCreateKeys.createdKeys)))

\* keys.go:207-223
UpdateAPIAccessKeyMutation ==
    /\ pc = "idle"
    /\ \E keys \in KeyInputs :
        \E r \in KeyMutationResponses("apiAccessUpdateKeys", "updatedKeys") :
            OneCall("UpdateAPIAccessKeyMutation", [keys |-> keys],
                    QueryRequest(apiAccessKeyUpdateKeys, [keys |-> keys]), r,
                    KeyMutationResult(r,
                        DecodeKeyErrors(r.body[1].apiAccessUpdateKeys.errors),
                        DecodeKeys(r.body[1].apiAccessUpdateKeys.updatedKeys)))

\* keys.go:226-242
DeleteAPIAccessKeyMutation ==
    /\ pc = "idle"
    /\ \E keys \in KeyInputs :
        \E r \in KeyMutationResponses("apiAccessDeleteKeys", "deletedKeys") :
            OneCall("DeleteAPIAccessKeyMutation", [keys |-> keys],
                    QueryRequest(apiAccessKeyDeleteKeys, [keys |-> keys]), r,
                    KeyMutationResult(r,
                        DecodeKeyErrors(r.body[1].apiAccessDeleteKeys.errors),
                        DecodeDeletedKeys(r.body[1].apiAccessDeleteKeys.deletedKeys)))

\* resp.Error() of the embedded http.GraphQLErrorResponse: the messages of the
\* response's top-level errors
GraphQLErrorText(errors) == Concat(errors)

\* keys.go:174-182 and 195-203: a key query returns the transport's error, or
\* an error made of the response's top-level errors, or the value
KeyQueryResult(response, value) ==
    IF response.err /= Nil THEN [val |-> Nil, err |-> response.err]
    ELSE IF response.body[1].errors /= Nil
    THEN [val |-> Nil, err |-> Some(NewError(GraphQLErrorText(response.body[1].errors[1])))]
    ELSE [val |-> Some(value), err |-> Nil]

\* the top-level errors of a query response: absent, or a list of messages
ServerQueryErrors == {Nil, Some(<<<<"d", "e", "n", "i", "e", "d">>>>)}

\* the answers of the server to GetAPIAccessKeyMutation
KeyGetResponses ==
    {Failure(e) : e \in TransportErrors}
    \cup {Success([actor |-> [apiAccess |-> [key |-> k]], errors |-> es]) :
            k \in ServerKeys, es \in ServerQueryErrors}

\* the answers of the server to SearchAPIAccessKeys
KeySearchResponses ==
    {Failure(e) : e \in TransportErrors}
    \cup {Success([actor |-> [apiAccess |-> [keySearch |-> [keys |-> ks]]],
                   errors |-> es]) :
            ks \in ServerKeyLists, es \in ServerQueryErrors}

\* keys.go:166-183
GetAPIAccessKeyMutation ==
    /\ pc = "idle"
    /\ \E keyID \in {"K1", "K2"}, keyType \in {"INGEST", "USER"} :
        \E r \in KeyGetResponses :
            OneCall("GetAPIAccessKeyMutation", [keyID |-> keyID, keyType |-> keyType],
                    QueryRequest(apiAccessKeyGetKey, [id |-> keyID, keyType |-> keyType]),
                    r, KeyQueryResult(r, DecodeKey(r.body[1].actor.apiAccess.key)))

\* keys.go:186-204
SearchAPIAccessKeys ==
    /\ pc = "idle"
    /\ \E params \in KeyInputs :
        \E r \in KeySearchResponses :
            OneCall("SearchAPIAccessKeys", [params |-> params],
                    QueryRequest(apiAccessKeySearch, [query |-> params]), r,
                    KeyQueryResult(r, DecodeKeys(
                                        r.body[1].actor.apiAccess.keySearch.keys)))

\* the caller takes the result; the client keeps no state between calls
Finish ==
    /\ pc = "done"
    /\ pc' = "idle" /\ op' = "none" /\ args' = Nil
    /\ alertPolicies' = <<>> /\ nextURL' = ""
    /\ policies' = <<>> /\ cells' = <<>> /\ nextCursor' = Nil
    /\ requests' = <<>> /\ responses' = <<>> /\ ret' = Nil
    /\ UNCHANGED goLoopVar

Next ==
    \/ CallListPolicies
    \/ CallGetPolicy
    \/ ListPoliciesGet
    \/ CallQueryPolicySearch
    \/ QueryPolicySearchQuery
    \/ CreatePolicy
    \/ UpdatePolicy
    \/ DeletePolicy
    \/ CreatePolicyMutation
    \/ UpdatePolicyMutation
    \/ QueryPolicyByID
    \/ DeletePolicyMutation
    \/ CreateAPIAccessKeysMutation
    \/ UpdateAPIAccessKeyMutation
    \/ DeleteAPIAccessKeyMutation
    \/ GetAPIAccessKeyMutation
    \/ SearchAPIAccessKeys
    \/ Finish

Spec == Init /\ [][Next]_vars

-----------------------------------------------------------------------------
(* Properties *)

Last(s) == s[Len(s)]

\* every transport call so far was answered without error
AllServed == \A i \in 1..Len(responses) : responses[i].err = Nil

\* the result the running method returned
Returned == ret[1]

\* the policies of the pages served to a listing, page after page
ServedPolicies ==
    Concat([i \in 1..Len(responses) |->
                alertPoliciesResponse(responses[i].body[1]).Policies])

\* the policies of the pages served to a search, page after page
ServedQueryPolicies ==
    Concat([i \in 1..Len(responses) |->
                alertQueryPolicySearchResponse(responses[i].body[1]).Policies])

\* the cursor of the i-th answer to a search, as sent
ServedCursor(i) ==
    responses[i].body[1].actor.account.alerts.policiesSearch.nextCursor

\* C1: when every page of a listing is served without error, ListPolicies
\* returns a nil error and the non-nil list made of the policies of the pages,
\* in the order the pages were served and in each page's order.
C1_ListPoliciesConcatenatesPages ==
    (pc = "done" /\ op = "ListPolicies" /\ AllServed)
        => ret = Return(Some(ServedPolicies), Nil)

C1_Witness ==
    /\ pc = "done" /\ op = "ListPolicies" /\ AllServed
    /\ Len(responses) = 2
    /\ Len(responses[1].body[1].policies) = 2
    /\ Len(responses[2].body[1].policies) >= 1
    /\ responses[1].body[1].policies[1] /= responses[1].body[1].policies[2]
    /\ responses[2].body[1].policies[1] /= responses[1].body[1].policies[1]
    /\ Len(Returned.val[1]) >= 3

\* C2: when the listing succeeds, GetPolicy(id) returns a not-found error
\* exactly when no listed policy has that id, and otherwise a nil error and the
\* first listed policy with that id; when the listing fails, GetPolicy returns
\* the listing's error, which is not a not-found error.
C2_GetPolicyNotFoundExactly ==
    (pc = "done" /\ op = "GetPolicy") =>
        IF AllServed
        THEN LET all == ServedPolicies
                 hits == {i \in 1..Len(all) : all[i].ID = args.id}
             IN  IF hits = {}
                 THEN /\ Returned.val = Nil
                      /\ Returned.err /= Nil
                      /\ Returned.err[1].kind = "notfound"
                 ELSE /\ Returned.err = Nil
                      /\ Returned.val[1].ID = args.id
                      /\ Returned.val[1] =
                            all[CHOOSE i \in hits : \A j \in hits : i <= j]
        ELSE /\ Returned = [val |-> Nil, err |-> Last(responses).err]
             /\ Returned.err[1].kind /= "notfound"

C2_Witness ==
    /\ pc = "done" /\ op = "GetPolicy" /\ AllServed
    /\ Len(responses) = 2
    /\ \E i \in 1..Len(ServedPolicies), j \in 1..Len(ServedPolicies) :
        /\ i < j
        /\ ServedPolicies[i].ID = args.id
        /\ ServedPolicies[j].ID = args.id
        /\ ServedPolicies[i] /= ServedPolicies[j]
        /\ Returned.val = Some(ServedPolicies[i])
        /\ \A k \in 1..(i - 1) : ServedPolicies[k].ID /= args.id

\* the three key mutations, and the field of the response each one reads
KeyMutationField ==
    [CreateAPIAccessKeysMutation |-> "apiAccessCreateKeys",
     UpdateAPIAccessKeyMutation |-> "apiAccessUpdateKeys",
     DeleteAPIAccessKeyMutation |-> "apiAccessDeleteKeys"]

\* the errors array of the answer to the running key mutation, as sent
ServedKeyErrors == responses[1].body[1][KeyMutationField[op]].errors

RECURSIVE LineStart(_, _)
\* where the line of the i-th entry starts in the message: after the lines of
\* the entries before it, each a type, ": ", a message and a line break
LineStart(es, i) ==
    IF i = 1 THEN 0
    ELSE LineStart(es, i - 1) + Len(es[i - 1].type) + 2 + Len(es[i - 1].message) + 1

\* C3: a key mutation answered with N >= 1 errors returns no keys and one
\* error whose message is made of exactly N lines, the i-th being the type of
\* the i-th entry, ": ", its message and a line break.
C3_MutationErrorsAllReported ==
    (/\ pc = "done" /\ op \in DOMAIN KeyMutationField
     /\ AllServed /\ Len(ServedKeyErrors) >= 1) =>
        LET es == ServedKeyErrors
            n == Len(es)
        IN  /\ Returned.val = Nil
            /\ Len(Returned.err) = 1
            /\ Returned.err[1].kind = "errorString"
            /\ Len(Returned.err[1].msg) = LineStart(es, n + 1)
            /\ \A i \in 1..n :
                SubSeq(Returned.err[1].msg, LineStart(es, i) + 1, LineStart(es, i + 1))
                    = es[i].type \o <<":", " ">> \o es[i].message \o <<"\n">>

C3_Witness ==
    /\ pc = "done" /\ op = "UpdateAPIAccessKeyMutation" /\ AllServed
    /\ Len(ServedKeyErrors) = 2
    /\ ServedKeyErrors[1].type /= ServedKeyErrors[2].type
    /\ ServedKeyErrors[1].message /= ServedKeyErrors[2].message
    /\ Returned.err /= Nil

\* C4: QueryPolicySearch issues one query per answer served, the first with a
\* null cursor and each later one with the non-null cursor of the answer just
\* before it, and it has returned exactly when the last answer carried a null
\* cursor (or was an error): no query follows that answer.
C4_SearchConsumesCursorChain ==
    op = "QueryPolicySearch" =>
        /\ Len(requests) = Len(responses)
        /\ \A i \in 1..Len(requests) :
            IF i = 1 THEN requests[i].vars.cursor = JSONNull
            ELSE /\ responses[i - 1].err = Nil
                 /\ ServedCursor(i - 1) /= JSONNull
                 /\ requests[i].vars.cursor = ServedCursor(i - 1)
        /\ (pc = "done") <=>
                /\ responses /= <<>>
                /\ \/ Last(responses).err /= Nil
                   \/ ServedCursor(Len(responses)) = JSONNull
        /\ (pc = "done" /\ AllServed) => (Returned.err = Nil /\ Returned.val /= Nil)

C4_Witness ==
    /\ pc = "done" /\ op = "QueryPolicySearch" /\ AllServed
    /\ Len(requests) = 2
    /\ requests[1].vars.cursor = JSONNull
    /\ requests[2].vars.cursor = JSONString("c1")
    /\ ServedCursor(2) = JSONNull
    /\ Returned.err = Nil

\* C5: against a server that echoes the policy a request affects, every field
\* the caller sent (name and incident preference on create and update, the
\* policy id on update and delete) is the same in the policy returned.
C5_RoundTrip ==
    (pc = "done" /\ AllServed) =>
        /\ op \in {"CreatePolicy", "UpdatePolicy"} =>
            /\ Returned.val[1].Name = args.policy.Name
            /\ Returned.val[1].IncidentPreference = args.policy.IncidentPreference
        /\ op = "UpdatePolicy" => Returned.val[1].ID = args.policy.ID
        /\ op = "DeletePolicy" => Returned.val[1].ID = args.id
        /\ op \in {"CreatePolicyMutation", "UpdatePolicyMutation"} =>
            /\ Returned.val[1].Name = args.policy.Name
            /\ Returned.val[1].IncidentPreference = args.policy.IncidentPreference
        /\ op = "UpdatePolicyMutation" => Returned.val[1].ID = args.policyID
        /\ op = "DeletePolicyMutation" => Returned.val[1].ID = args.id

\* C6: a transport call that fails is the last one of the method, which
\* returns that very error and a nil result, whatever it had accumulated.
C6_TransportErrorVerbatim ==
    \A i \in 1..Len(responses) :
        responses[i].err /= Nil =>
            /\ i = Len(responses)
            /\ pc = "done"
            /\ ret = Return(Nil, responses[i].err)

C6_Witness ==
    /\ pc = "done" /\ op = "ListPolicies"
    /\ Len(responses) = 2
    /\ responses[1].err = Nil
    /\ responses[2].err /= Nil
    /\ alertPolicies /= <<>>
    /\ Returned.val = Nil
    /\ Returned.err = responses[2].err

\* C7: the GETs of a listing are issued one per answer served: the first to
\* "/alerts_policies.json", each later one to the non-empty next URL of the
\* answer just before it, which was not an error; and the listing has returned
\* exactly when the last answer was an error or had no next URL.
C7_ListPoliciesSequentialGets ==
    op \in {"ListPolicies", "GetPolicy"} =>
        /\ Len(requests) = Len(responses)
        /\ \A i \in 1..Len(requests) :
            /\ requests[i].method = "GET"
            /\ IF i = 1 THEN requests[i].url = "/alerts_policies.json"
               ELSE /\ responses[i - 1].err = Nil
                    /\ Parse(responses[i - 1].body[1]).Next /= ""
                    /\ requests[i].url = Parse(responses[i - 1].body[1]).Next
        /\ (pc = "done") <=>
                /\ responses /= <<>>
                /\ \/ Last(responses).err /= Nil
                   \/ Parse(Last(responses).body[1]).Next = ""

C7_Witness ==
    /\ pc = "done" /\ op = "ListPolicies"
    /\ Len(requests) = 2
    /\ requests[1].url = "/alerts_policies.json"
    /\ requests[2].url = "/alerts_policies.json?page=3"
    /\ Parse(responses[1].body[1]).Next = "/alerts_policies.json?page=3"
    /\ responses[2].err = Nil

\* C8: on success the pointers QueryPolicySearch returns refer, one by one, to
\* values equal to the policies of the pages served, page after page.
C8_SearchReturnsEveryPolicy ==
    (pc = "done" /\ op = "QueryPolicySearch" /\ AllServed) =>
        Deref(Returned.val[1], cells) = ServedQueryPolicies

\* C9: an answer to a search whose cursor is the empty string ends the search
\* as a null cursor does: it is the last answer, and the search has returned.
C9_EmptyCursorEndsSearch ==
    op = "QueryPolicySearch" =>
        \A i \in 1..Len(responses) :
            (responses[i].err = Nil /\ ServedCursor(i) = JSONString("")) =>
                (i = Len(responses) /\ pc = "done")

\* C10: the variables of every NerdGraph call of the alert-policy client are
\* exactly the variables its query template declares.
C10_VariablesMatchTemplate ==
    op \in {"CreatePolicyMutation", "UpdatePolicyMutation", "QueryPolicy",
            "QueryPolicySearch", "DeletePolicyMutation"} =>
        \A i \in 1..Len(requests) :
            DOMAIN requests[i].vars = requests[i].query.declares

\* the name of the key list in the answer to each key mutation
KeyMutationList ==
    [CreateAPIAccessKeysMutation |-> "createdKeys",
     UpdateAPIAccessKeyMutation |-> "updatedKeys",
     DeleteAPIAccessKeyMutation |-> "deletedKeys"]

\* the key list of the answer to the running key mutation, as sent
ServedKeyList ==
    responses[1].body[1][KeyMutationField[op]][KeyMutationList[op]]

\* the i-th returned key carries what the i-th served key says: its id, and
\* for a created or updated key also its key, name, notes and type
SameKey(returned, served) ==
    /\ returned.ID = served.id
    /\ op /= "DeleteAPIAccessKeyMutation" =>
        /\ returned.Key = served.key
        /\ returned.Name = served.name
        /\ returned.Notes = served.notes
        /\ returned.Type = served.type

\* C11: when the transport call of a key mutation (create, update, delete)
\* succeeds, the errors array alone decides the outcome: empty, the keys the
\* response lists are returned with a nil error; non-empty, a nil list and a
\* non-nil error are returned whatever keys the response lists; a non-nil list
\* never comes with a non-nil error.
C11_ErrorsArrayDecidesOutcome ==
    (pc = "done" /\ op \in DOMAIN KeyMutationField) =>
        /\ ~(Returned.val /= Nil /\ Returned.err /= Nil)
        /\ AllServed =>
            IF Len(ServedKeyErrors) = 0
            THEN /\ Returned.err = Nil
                 /\ Returned.val /= Nil
                 /\ Len(Returned.val[1]) = Len(ServedKeyList)
                 /\ \A i \in 1..Len(ServedKeyList) :
                        SameKey(Returned.val[1][i], ServedKeyList[i])
            ELSE /\ Returned.val = Nil
                 /\ Returned.err /= Nil

\* a delete whose answer lists deleted keys next to an error
C11_Witness ==
    /\ pc = "done" /\ op = "DeleteAPIAccessKeyMutation" /\ AllServed
    /\ Len(ServedKeyErrors) = 1
    /\ Len(ServedKeyList) = 2
    /\ Returned.val = Nil
    /\ Returned.err /= Nil

\* the id the answer to the running DeletePolicyMutation reports as deleted
ServedDeletedID == Atoi(responses[1].body[1].alertsPolicyDelete.id)

\* C12: after a successful query DeletePolicyMutation returns a nil error and
\* an empty QueryPolicy (ID 0, empty name, empty incident preference, account
\* ID 0), whatever id the server reported and whatever accountID and id the
\* caller passed.
C12_DeletePolicyMutationReturnsEmpty ==
    (pc = "done" /\ op = "DeletePolicyMutation" /\ AllServed) =>
        /\ Returned.err = Nil
        /\ Returned.val /= Nil
        /\ Returned.val[1].ID = 0
        /\ Returned.val[1].Name = ""
        /\ Returned.val[1].IncidentPreference = ""
        /\ Returned.val[1].AccountID = 0

\* a delete of policy 12 in account 2 that the server reports as done
C12_Witness ==
    /\ pc = "done" /\ op = "DeletePolicyMutation" /\ AllServed
    /\ args.accountID = 2 /\ args.id = 12
    /\ ServedDeletedID = 12
    /\ Returned.err = Nil
    /\ Returned.val[1].ID = 0

=============================================================================
